---- MODULE Spec2Model ----
(***************************************************************************)
(* Model of streamlit_app/app.py: the status aggregation                   *)
(* (process_status_data), the age distribution, and the religion and       *)
(* district lookup joins of the dashboard script.                          *)
(*                                                                         *)
(* Text that the code inspects character by character (status values,      *)
(* column names, stage names) is a sequence of one-character strings, so   *)
(* that lower(), strip() and endswith() are computed, not assumed.         *)
(* Text that the code only builds or compares whole (category names,       *)
(* lookup names, age labels) is a TLA+ string.                             *)
(***************************************************************************)
EXTENDS Integers, Sequences, FiniteSets, TLC

VARIABLES
    pc,                     \* position of the script run / of the call
    raw_df,                 \* the application DataFrame of this run
    cache_valid,            \* whether st.cache_data holds the three fetched frames
    cached_df,              \* the value st.cache_data holds for fetch_application_data
    religions_df,           \* the religion lookup DataFrame
    districts_df,           \* the district lookup DataFrame
    selected_view,          \* st.selectbox: "Aggregated" or a stage name
    selected_status_types,  \* st.multiselect: the status filter
    processed,              \* what process_status_data returned
    gender_counts,          \* Chart 1's count table
    age_counts,             \* Chart 2's count table
    religion_counts,        \* Chart 3's count table
    district_counts,        \* Chart 4's count table
    clock,                  \* the calendar date datetime.now() shows
    reads,                  \* the dates the last age lambda read from the clock
    probe                   \* how the probed raw status value was written

vars == <<pc, raw_df, cache_valid, cached_df, religions_df, districts_df, selected_view,
          selected_status_types, processed, gender_counts, age_counts, religion_counts,
          district_counts, clock, reads, probe>>

(***************************************************************************)
(* Bounds                                                                  *)
(***************************************************************************)
MaxRows == 2        \* rows of a row-set
MaxPad == 1         \* whitespace characters around a probed status value

(***************************************************************************)
(* Characters and Python's str methods                                     *)
(***************************************************************************)
LowerLetters ==
    <<"a","b","c","d","e","f","g","h","i","j","k","l","m",
      "n","o","p","q","r","s","t","u","v","w","x","y","z">>

UpperLetters ==
    <<"A","B","C","D","E","F","G","H","I","J","K","L","M",
      "N","O","P","Q","R","S","T","U","V","W","X","Y","Z">>

Whitespace == {" ", "\t", "\n"}

\* str.lower() on one character
lower_char(c) ==
    IF \E i \in DOMAIN UpperLetters : UpperLetters[i] = c
    THEN LowerLetters[CHOOSE i \in DOMAIN UpperLetters : UpperLetters[i] = c]
    ELSE c

\* str.upper() on one character (used to write the inputs, not by the code)
upper_char(c) ==
    IF \E i \in DOMAIN LowerLetters : LowerLetters[i] = c
    THEN UpperLetters[CHOOSE i \in DOMAIN LowerLetters : LowerLetters[i] = c]
    ELSE c

\* .str.lower()
str_lower(s) == [i \in DOMAIN s |-> lower_char(s[i])]

RECURSIVE lstrip(_)
lstrip(s) ==
    IF s # <<>> /\ Head(s) \in Whitespace THEN lstrip(Tail(s)) ELSE s

RECURSIVE rstrip(_)
rstrip(s) ==
    IF s # <<>> /\ s[Len(s)] \in Whitespace
    THEN rstrip(SubSeq(s, 1, Len(s) - 1))
    ELSE s

\* .str.strip()
str_strip(s) == rstrip(lstrip(s))

\* str.endswith(suffix)
endswith(s, suffix) ==
    /\ Len(s) >= Len(suffix)
    /\ SubSeq(s, Len(s) - Len(suffix) + 1, Len(s)) = suffix

(***************************************************************************)
(* Cells.  A status cell is None or a str.                                 *)
(***************************************************************************)
None == [isnull |-> TRUE, str |-> <<>>]

Str(s) == [isnull |-> FALSE, str |-> s]

\* .astype(str): None becomes the text 'None'
astype_str(cell) ==
    IF cell.isnull THEN <<"N","o","n","e">> ELSE cell.str

(***************************************************************************)
(* process_status_data                                                     *)
(***************************************************************************)
APPROVAL_STATUS ==
    <<"_","a","p","p","r","o","v","a","l","_","s","t","a","t","u","s">>

Aggregated == <<"A","g","g","r","e","g","a","t","e","d">>

\* the keys of status_mapping
k_approved == <<"a","p","p","r","o","v","e","d">>
k_accepted == <<"a","c","c","e","p","t","e","d">>
k_complete == <<"c","o","m","p","l","e","t","e">>
k_rejected == <<"r","e","j","e","c","t","e","d">>
k_denied == <<"d","e","n","i","e","d">>
k_in_progress == <<"i","n"," ","p","r","o","g","r","e","s","s">>
k_pending == <<"p","e","n","d","i","n","g">>
k_review == <<"r","e","v","i","e","w">>
k_awaiting_review ==
    <<"a","w","a","i","t","i","n","g"," ","r","e","v","i","e","w">>
k_null == <<"n","u","l","l">>
k_none == <<"n","o","n","e">>
k_empty == <<>>

status_mapping ==
    [k \in {k_approved, k_accepted, k_complete, k_rejected, k_denied,
            k_in_progress, k_pending, k_review, k_awaiting_review,
            k_null, k_none, k_empty} |->
        CASE k \in {k_approved, k_accepted, k_complete} -> "Approved"
          [] k \in {k_rejected, k_denied} -> "Rejected"
          [] k \in {k_in_progress, k_pending, k_review, k_awaiting_review}
                -> "In Progress"
          [] OTHER -> "Unknown/Missing"]

NaN == "NaN"

\* Series.map(dict): a value that is no key maps to NaN
series_map(v, mapping) == IF v \in DOMAIN mapping THEN mapping[v] ELSE NaN

\* Series.fillna(value)
fillna(v, value) == IF v = NaN THEN value ELSE v

\* status_text with the .str.strip() left out
status_text_nostrip(cell) == str_lower(astype_str(cell))

\* the 'status' column: .astype(str).str.lower().str.strip()
status_text(cell) == str_strip(str_lower(astype_str(cell)))

\* standard_status with the .fillna('Other') left out
standard_status_nofill(cell) == series_map(str_strip(str_lower(astype_str(cell))), status_mapping)

\* the 'standard_status' column: .map(status_mapping).fillna('Other')
standard_status(cell) ==
    fillna(series_map(status_text(cell), status_mapping), "Other")

order == <<"Approved", "Rejected", "In Progress", "Unknown/Missing", "Other">>

\* df.empty: no rows or no columns
df_empty(df) == Len(df.rows) = 0 \/ Len(df.columns) = 0

Range(s) == {s[i] : i \in DOMAIN s}

\* [col for col in df.columns if col.endswith('_approval_status')]
status_cols_of(df) ==
    SelectSeq(df.columns, LAMBDA col : endswith(col, APPROVAL_STATUS))

\* one column of the frame, top to bottom
column_values(df, col) == [i \in DOMAIN df.rows |-> df.rows[i][col]]

\* df[status_cols].melt(...): the columns' values, one column after another
RECURSIVE melt(_, _)
melt(df, cols) ==
    IF cols = <<>> THEN <<>>
    ELSE column_values(df, Head(cols)) \o melt(df, Tail(cols))

\* `if status_filter:` -- None and the empty list are both false
truthy(status_filter) == ~status_filter.isnone /\ status_filter.items # {}

\* df[df['standard_status'].isin(status_filter)]
isin_filter(statuses, status_filter) ==
    SelectSeq(statuses, LAMBDA s : s \in status_filter.items)

count_of(values, v) == Cardinality({i \in DOMAIN values : values[i] = v})

first_index(values, v) == CHOOSE i \in DOMAIN values :
    values[i] = v /\ \A j \in 1..(i - 1) : values[j] # v

\* Series.value_counts().reset_index() with .columns = [key, 'Count']: one
\* row per value that occurs, most frequent first, ties in order of first
\* occurrence
RECURSIVE value_counts_from(_, _, _)
value_counts_from(values, left, key) ==
    IF left = {} THEN <<>>
    ELSE LET best == CHOOSE v \in left : \A w \in left :
                 \/ count_of(values, v) > count_of(values, w)
                 \/ /\ count_of(values, v) = count_of(values, w)
                    /\ first_index(values, v) <= first_index(values, w)
         IN  <<(key :> best) @@ ("Count" :> count_of(values, best))>>
                 \o value_counts_from(values, left \ {best}, key)

value_counts(values, key) == value_counts_from(values, Range(values), key)

\* value_counts() leaves NaN out (dropna=True)
dropna(values) == SelectSeq(values, LAMBDA v : v # NaN)

\* pd.Categorical(..., categories=...): a value outside the categories
\* becomes NaN
categorical(counts, key, categories) ==
    [i \in DOMAIN counts |->
        IF counts[i][key] \in Range(categories)
        THEN counts[i]
        ELSE (key :> NaN) @@ ("Count" :> counts[i].Count)]

\* sort_values(key) on an ordered categorical: category order, NaN last
RECURSIVE sort_values(_, _, _)
sort_values(counts, key, categories) ==
    IF categories = <<>>
    THEN SelectSeq(counts, LAMBDA r : r[key] = NaN)
    ELSE SelectSeq(counts, LAMBDA r : r[key] = Head(categories))
             \o sort_values(counts, key, Tail(categories))

\* ordered_counts with the sort left out: value_counts' own order
ordered_counts_unsorted(status_counts, status_filter) == status_counts

\* lines 183-193: order the count table
ordered_counts(status_counts, status_filter) ==
    LET present == {status_counts[i].Status : i \in DOMAIN status_counts}
        in_data == SelectSeq(order, LAMBDA s : s \in present)
        relevant_order ==
            IF truthy(status_filter)
            THEN SelectSeq(in_data, LAMBDA s : s \in status_filter.items)
            ELSE in_data
    IN  sort_values(categorical(status_counts, "Status", relevant_order),
                    "Status", relevant_order)

\* lines 153-162 and 172-180: normalise, filter, count
tally(cells, status_filter) ==
    LET standard == [i \in DOMAIN cells |-> standard_status(cells[i])]
        kept == IF truthy(status_filter)
                THEN isin_filter(standard, status_filter)
                ELSE standard
    IN  value_counts(dropna(kept), "Status")

\* stage_column_of with the .lower() left out
stage_column_of_nolower(selected_stage) == selected_stage \o APPROVAL_STATUS

\* f"{selected_stage.lower()}_approval_status"
stage_column_of(selected_stage) == str_lower(selected_stage) \o APPROVAL_STATUS

process_status_data(df, selected_stage, status_filter) ==
    IF df_empty(df)
    THEN [counts |-> <<>>, title |-> <<"No Data">>]
    ELSE
    LET status_cols == status_cols_of(df) IN
    IF status_cols = <<>>
    THEN [counts |-> <<>>, title |-> <<"No relevant status columns">>]
    ELSE
    IF selected_stage = Aggregated
    THEN [counts |-> ordered_counts(tally(melt(df, status_cols), status_filter),
                                    status_filter),
          title |-> <<"Total Applications by Approval Status (All Stages Aggregated)">>]
    ELSE
    LET stage_column == stage_column_of(selected_stage) IN
    IF stage_column \notin Range(df.columns)
    THEN [counts |-> <<>>,
          title |-> <<"Column ">> \o stage_column \o <<" not found">>]
    ELSE [counts |-> ordered_counts(tally(column_values(df, stage_column),
                                          status_filter),
                                    status_filter),
          title |-> <<"Applications by Approval Status for ">>
                        \o selected_stage \o <<" Stage">>]

(***************************************************************************)
(* Chart 2: Age Distribution                                               *)
(***************************************************************************)
\* A dob cell: None, the fetched value (y, m, d as written, not yet
\* checked), and after pd.to_datetime a Timestamp or NaT.
dob_none == [tag |-> "None", y |-> 0, m |-> 0, d |-> 0]

dob_raw(y, m, d) == [tag |-> "raw", y |-> y, m |-> m, d |-> d]

NaT == [tag |-> "NaT", y |-> 0, m |-> 0, d |-> 0]

Timestamp(y, m, d) == [tag |-> "Timestamp", y |-> y, m |-> m, d |-> d]

is_leap(y) == (y % 4 = 0 /\ y % 100 # 0) \/ y % 400 = 0

days_in_month(y, m) ==
    IF m = 2 THEN (IF is_leap(y) THEN 29 ELSE 28)
    ELSE IF m \in {4, 6, 9, 11} THEN 30 ELSE 31

is_calendar_date(y, m, d) ==
    /\ m \in 1..12
    /\ d >= 1
    /\ d <= days_in_month(y, m)

\* pd.to_datetime(..., errors='coerce'): what is no calendar date, and None,
\* become NaT; a Timestamp stays what it is
to_datetime(cell) ==
    CASE cell.tag = "raw" ->
            IF is_calendar_date(cell.y, cell.m, cell.d)
            THEN Timestamp(cell.y, cell.m, cell.d)
            ELSE NaT
      [] cell.tag = "Timestamp" -> cell
      [] OTHER -> NaT

\* a value of the clock: a calendar date
Date(y, m, d) == [y |-> y, m |-> m, d |-> d]

NextDay(n) ==
    IF n.d < days_in_month(n.y, n.m) THEN Date(n.y, n.m, n.d + 1)
    ELSE IF n.m < 12 THEN Date(n.y, n.m + 1, 1)
    ELSE Date(n.y + 1, 1, 1)

\* Python's (a1, a2) < (b1, b2) on pairs of ints
tuple_lt(a1, a2, b1, b2) == a1 < b1 \/ (a1 = b1 /\ a2 < b2)

NoAge == -1000000     \* stands for the None the lambda returns

\* line 306: the lambda.  The clock is read three times: now1 gives the
\* year, now2 the month, now3 the day.
age_lambda(x, now1, now2, now3) ==
    IF x.tag = "Timestamp"
    THEN now1.y - x.y - (IF tuple_lt(now2.m, now3.d, x.m, x.d) THEN 1 ELSE 0)
    ELSE NoAge

\* line 307: .fillna(-1).astype(int)
fill_age(a) == IF a = NoAge THEN -1 ELSE a

BinStep == 10

BinStop == 101

\* list(range(0, 101, 10))
bins == [i \in 1..((BinStop - 1) \div BinStep + 1) |-> (i - 1) * BinStep]

\* [f'{i}-{i+9}' for i in bins[:-1]] + ['100+']
age_range_labels ==
    [i \in 1..(Len(bins) - 1) |-> ToString(bins[i]) \o "-" \o ToString(bins[i] + 9)]
        \o <<"100+">>

age_group_order == <<"Unknown">> \o age_range_labels

\* age_bin_label with the upper end of a bin taken as inclusive
age_bin_label_inclusive(age) ==
    IF age = -1 THEN "Unknown"
    ELSE LET hits == {i \in 1..(Len(bins) - 1) : bins[i] <= age /\ age <= bins[i + 1]}
         IN  IF hits # {}
             THEN age_range_labels[CHOOSE i \in hits : \A j \in hits : i <= j]
             ELSE IF age >= bins[Len(bins)] THEN "100+"
             ELSE "Unknown"

age_bin_label(age) ==
    IF age = -1 THEN "Unknown"
    ELSE LET hits == {i \in 1..(Len(bins) - 1) : bins[i] <= age /\ age < bins[i + 1]}
         IN  IF hits # {}
             THEN age_range_labels[CHOOSE i \in hits : \A j \in hits : i <= j]
             ELSE IF age >= bins[Len(bins)] THEN "100+"
             ELSE "Unknown"

(***************************************************************************)
(* The fetched frames                                                      *)
(***************************************************************************)
c_es == <<"e","s">> \o APPROVAL_STATUS
c_da == <<"d","a">> \o APPROVAL_STATUS
c_osd == <<"o","s","d">> \o APPROVAL_STATUS
c_mngr == <<"m","n","g","r">> \o APPROVAL_STATUS
c_gm == <<"g","m">> \o APPROVAL_STATUS
c_md == <<"m","d">> \o APPROVAL_STATUS
c_gender == <<"g","e","n","d","e","r">>
c_dob == <<"d","o","b">>
c_religion_id == <<"r","e","l","i","g","i","o","n","_","i","d">>
c_present_district_id ==
    <<"p","r","e","s","e","n","t","_","d","i","s","t","r","i","c","t","_","i","d">>
c_age == <<"a","g","e">>
c_age_group == <<"a","g","e","_","g","r","o","u","p">>

\* fetch_application_data: the columns of the query, in its order
columns_to_fetch ==
    <<c_es, c_da, c_osd, c_mngr, c_gm, c_md,
      c_gender, c_dob, c_religion_id, c_present_district_id>>

\* pd.DataFrame(): what a failed fetch returns
EmptyFrame == [columns |-> <<>>, rows |-> <<>>]

\* the options of the stage selectbox
s_ES == <<"E","S">>
s_DA == <<"D","A">>
s_OSD == <<"O","S","D">>
s_MNGR == <<"M","N","G","R">>
s_GM == <<"G","M">>
s_MD == <<"M","D">>

all_status_stages == <<Aggregated, s_ES, s_DA, s_OSD, s_MNGR, s_GM, s_MD>>

all_status_types == order

\* a foreign key cell: None or an integer id
id_none == [isnull |-> TRUE, val |-> 0]

Id(n) == [isnull |-> FALSE, val |-> n]

\* a status filter: None (the parameter's default) or a list of statuses
filter_none == [isnone |-> TRUE, items |-> {}]

filter_list(S) == [isnone |-> FALSE, items |-> S]

(***************************************************************************)
(* Charts 1, 3 and 4                                                       *)
(***************************************************************************)
\* what a chart section leaves: not run yet, st.info(...), or the table drawn
Pending == [state |-> "pending", counts |-> <<>>]

Info == [state |-> "info", counts |-> <<>>]

Chart(counts) == [state |-> "chart", counts |-> counts]

\* lines 284-299
gender_chart(df) ==
    IF c_gender \in Range(df.columns) /\ Len(df.rows) > 0
    THEN LET present == SelectSeq(column_values(df, c_gender),
                                  LAMBDA g : ~g.isnull)
             counts == value_counts(present, "Gender")
         IN  IF counts # <<>> THEN Chart(counts) ELSE Info
    ELSE Info

\* merge_names as an inner join: a key without a match gives no row
RECURSIVE merge_names_inner(_, _)
merge_names_inner(keys, lookup) ==
    IF keys = <<>> THEN <<>>
    ELSE LET k == Head(keys)
             matches == SelectSeq(lookup, LAMBDA r : ~k.isnull /\ r.id = k.val)
         IN  [j \in DOMAIN matches |-> matches[j].name]
                 \o merge_names_inner(Tail(keys), lookup)

\* raw_df.merge(lookup, left_on=left_on, right_on='id', how='left'), the
\* name column of the result: one row per match, and one NaN row for a key
\* that is None or matches no id
RECURSIVE merge_names(_, _)
merge_names(keys, lookup) ==
    IF keys = <<>> THEN <<>>
    ELSE LET k == Head(keys)
             matches == SelectSeq(lookup, LAMBDA r : ~k.isnull /\ r.id = k.val)
         IN  (IF matches = <<>> THEN <<NaN>>
              ELSE [j \in DOMAIN matches |-> matches[j].name])
                 \o merge_names(Tail(keys), lookup)

\* lookup_chart with the fillna(placeholder) left out
lookup_chart_nofill(df, lookup, left_on, placeholder, key) ==
    IF left_on \in Range(df.columns) /\ Len(df.rows) > 0 /\ Len(lookup) > 0
    THEN LET merged == merge_names(column_values(df, left_on), lookup)
             counts == value_counts(dropna(merged), key)
         IN  IF counts # <<>> THEN Chart(counts) ELSE Info
    ELSE Info

\* lines 353-373 and 376-396
lookup_chart(df, lookup, left_on, placeholder, key) ==
    IF left_on \in Range(df.columns) /\ Len(df.rows) > 0 /\ Len(lookup) > 0
    THEN LET merged == merge_names(column_values(df, left_on), lookup)
             names == [i \in DOMAIN merged |-> fillna(merged[i], placeholder)]
             counts == value_counts(dropna(names), key)
         IN  IF counts # <<>> THEN Chart(counts) ELSE Info
    ELSE Info

(***************************************************************************)
(* Chart 2, lines 303-349                                                  *)
(***************************************************************************)
\* the dates the clock may show
ClockDates ==
    {Date(y, md[1], md[2]) :
        y \in {2025, 2026},
        md \in {<<1, 1>>, <<1, 31>>, <<2, 1>>, <<2, 28>>, <<3, 1>>,
                <<6, 14>>, <<6, 15>>, <<6, 16>>, <<12, 31>>}}

\* the k-th clock read of the column's apply: the date changes after `tick`
\* reads
clock_read(k, tick) == IF k <= tick THEN clock ELSE NextDay(clock)

\* after how many of the 3n reads the date may change (3n: it does not)
TickPoints(n) ==
    {3 * n} \cup (IF NextDay(clock) \in ClockDates THEN 0..(3 * n - 1) ELSE {})

append_column(columns, col) ==
    IF col \in Range(columns) THEN columns ELSE Append(columns, col)

\* lines 305-328: the frame with dob parsed and age, age_group set
with_age(df, tick) ==
    LET parsed(i) == to_datetime(df.rows[i][c_dob])
        age(i) == fill_age(age_lambda(parsed(i),
                                      clock_read(3 * (i - 1) + 1, tick),
                                      clock_read(3 * (i - 1) + 2, tick),
                                      clock_read(3 * (i - 1) + 3, tick)))
    IN  [columns |-> append_column(append_column(df.columns, c_age), c_age_group),
         rows |-> [i \in DOMAIN df.rows |->
            [c \in DOMAIN df.rows[i] \cup {c_age, c_age_group} |->
                IF c = c_dob THEN parsed(i)
                ELSE IF c = c_age THEN age(i)
                ELSE IF c = c_age_group THEN age_bin_label(age(i))
                ELSE df.rows[i][c]]]]

\* lines 330-333
age_table(df) ==
    LET counts == value_counts(dropna(column_values(df, c_age_group)), "Age Group")
    IN  sort_values(categorical(counts, "Age Group", age_group_order),
                    "Age Group", age_group_order)

(***************************************************************************)
(* The script run                                                          *)
(***************************************************************************)
NotCalled == [counts |-> <<>>, title |-> <<>>]

NoProbe == [kind |-> "none", word |-> <<>>, variant |-> "lower",
            lpad |-> 0, rpad |-> 0, padchar |-> " "]

\* lines 232-238 and 398-399.  A cached fetch returns a copy of the cached
\* frame; with the cache cleared the three fetches run, and what they return
\* (a failed fetch returns an empty frame) is cached.  LoadData is defined
\* after the inputs it draws from.

\* lines 240-276
StatusChart ==
    /\ pc = "status"
    /\ processed' = process_status_data(raw_df, selected_view, selected_status_types)
    /\ pc' = "gender"
    /\ UNCHANGED <<raw_df, cache_valid, cached_df, religions_df, districts_df, selected_view,
                   selected_status_types, gender_counts, age_counts,
                   religion_counts, district_counts, clock, reads, probe>>

\* lines 284-299
GenderChart ==
    /\ pc = "gender"
    /\ gender_counts' = gender_chart(raw_df)
    /\ pc' = "age"
    /\ UNCHANGED <<raw_df, cache_valid, cached_df, religions_df, districts_df, selected_view,
                   selected_status_types, processed, age_counts,
                   religion_counts, district_counts, clock, reads, probe>>

\* lines 303-349
AgeChart ==
    /\ pc = "age"
    /\ IF c_dob \in Range(raw_df.columns) /\ Len(raw_df.rows) > 0
       THEN \E tick \in TickPoints(Len(raw_df.rows)) :
            LET n == Len(raw_df.rows)
                df == with_age(raw_df, tick)
                table == age_table(df)
            IN  /\ raw_df' = df
                /\ age_counts' = IF table # <<>> THEN Chart(table) ELSE Info
                /\ clock' = clock_read(3 * n, tick)
                /\ reads' = [i \in 1..n |->
                                <<clock_read(3 * (i - 1) + 1, tick),
                                  clock_read(3 * (i - 1) + 2, tick),
                                  clock_read(3 * (i - 1) + 3, tick)>>]
       ELSE /\ age_counts' = Info
            /\ UNCHANGED <<raw_df, clock, reads>>
    /\ pc' = "religion"
    /\ UNCHANGED <<cache_valid, cached_df, religions_df, districts_df, selected_view,
                   selected_status_types, processed, gender_counts,
                   religion_counts, district_counts, probe>>

\* lines 353-373
ReligionChart ==
    /\ pc = "religion"
    /\ religion_counts' = lookup_chart(raw_df, religions_df, c_religion_id,
                                       "Unknown Religion", "Religion")
    /\ pc' = "district"
    /\ UNCHANGED <<raw_df, cache_valid, cached_df, religions_df, districts_df, selected_view,
                   selected_status_types, processed, gender_counts, age_counts,
                   district_counts, clock, reads, probe>>

\* lines 376-396
DistrictChart ==
    /\ pc = "district"
    /\ district_counts' = lookup_chart(raw_df, districts_df, c_present_district_id,
                                       "Unknown District", "District")
    /\ pc' = "done"
    /\ UNCHANGED <<raw_df, cache_valid, cached_df, religions_df, districts_df, selected_view,
                   selected_status_types, processed, gender_counts, age_counts,
                   religion_counts, clock, reads, probe>>

(***************************************************************************)
(* The inputs                                                              *)
(***************************************************************************)
SeqsUpTo(S, n) == UNION {[1..k -> S] : k \in 0..n}

w_Approved == <<"A","p","p","r","o","v","e","d">>
w_rejected_padded == <<" ","r","e","j","e","c","t","e","d">>
w_xyz == <<"x","y","z">>

\* a row as fetched: the six stage columns hold s
fetched_row(s, g, b, r, t) ==
    [c \in Range(columns_to_fetch) |->
        IF endswith(c, APPROVAL_STATUS) THEN s
        ELSE IF c = c_gender THEN g
        ELSE IF c = c_dob THEN b
        ELSE IF c = c_religion_id THEN r
        ELSE t]

SampleRows ==
    {fetched_row(Str(w_Approved), Str(<<"F">>), dob_raw(2000, 6, 15), Id(1), Id(1)),
     fetched_row(None, None, dob_none, id_none, id_none),
     fetched_row(Str(w_rejected_padded), Str(<<"M">>), dob_raw(2001, 2, 30), Id(7), Id(2)),
     fetched_row(Str(w_xyz), Str(<<"F">>), dob_raw(2000, 12, 31), Id(2), Id(7))}

\* fetch_application_data: the query's rows, or pd.DataFrame() on an error
FetchedFrames ==
    {EmptyFrame} \cup
    {[columns |-> columns_to_fetch, rows |-> rs] : rs \in SeqsUpTo(SampleRows, MaxRows)}

Lookup(id, name) == [id |-> id, name |-> name]

\* fetch_religions: the rows of the lookup table (none on an error)
ReligionTables ==
    {<<>>,
     <<Lookup(1, "Hindu")>>,
     <<Lookup(1, "Hindu"), Lookup(2, "Islam")>>,
     <<Lookup(1, "Hindu"), Lookup(1, "Islam")>>}

\* fetch_districts
DistrictTables ==
    {<<>>,
     <<Lookup(1, "Kolkata"), Lookup(2, "Howrah")>>,
     <<Lookup(2, "Howrah"), Lookup(2, "Hooghly")>>}

LoadData ==
    /\ pc = "load"
    /\ IF cache_valid
       THEN /\ raw_df' = cached_df
            /\ UNCHANGED <<cache_valid, cached_df, religions_df, districts_df>>
       ELSE /\ cached_df' \in FetchedFrames
            /\ religions_df' \in ReligionTables
            /\ districts_df' \in DistrictTables
            /\ raw_df' = cached_df'
            /\ cache_valid' = TRUE
    /\ pc' = IF df_empty(raw_df') THEN "done" ELSE "status"
    /\ UNCHANGED <<selected_view, selected_status_types, processed,
                   gender_counts, age_counts, religion_counts,
                   district_counts, clock, reads, probe>>

\* a widget changed: the script runs again from the top
Rerun ==
    /\ pc = "done"
    /\ selected_view' \in {Aggregated, s_ES}
    /\ selected_status_types' \in
           {filter_list(Range(all_status_types)), filter_list({}),
            filter_list({"Approved"})}
    /\ pc' = "load"
    /\ raw_df' = EmptyFrame
    /\ processed' = NotCalled
    /\ gender_counts' = Pending
    /\ age_counts' = Pending
    /\ religion_counts' = Pending
    /\ district_counts' = Pending
    /\ reads' = <<>>
    /\ UNCHANGED <<cache_valid, cached_df, religions_df, districts_df, clock, probe>>

\* the button at lines 221-224: the caches are cleared and the script runs
\* again
RefreshData ==
    /\ pc = "done"
    /\ cache_valid' = FALSE
    /\ cached_df' = EmptyFrame
    /\ religions_df' = <<>>
    /\ districts_df' = <<>>
    /\ pc' = "load"
    /\ raw_df' = EmptyFrame
    /\ processed' = NotCalled
    /\ gender_counts' = Pending
    /\ age_counts' = Pending
    /\ religion_counts' = Pending
    /\ district_counts' = Pending
    /\ reads' = <<>>
    /\ UNCHANGED <<selected_view, selected_status_types, clock, probe>>

Init ==
    /\ pc = "load"
    /\ raw_df = EmptyFrame
    /\ cache_valid = FALSE
    /\ cached_df = EmptyFrame
    /\ religions_df = <<>>
    /\ districts_df = <<>>
    /\ selected_view \in {Aggregated, s_ES}
    /\ selected_status_types \in
           {filter_list(Range(all_status_types)), filter_list({}),
            filter_list({"Approved"})}
    /\ processed = NotCalled
    /\ gender_counts = Pending
    /\ age_counts = Pending
    /\ religion_counts = Pending
    /\ district_counts = Pending
    /\ clock = Date(2025, 12, 31)
    /\ reads = <<>>
    /\ probe = NoProbe

Next ==
    \/ LoadData
    \/ StatusChart
    \/ GenderChart
    \/ AgeChart
    \/ ReligionChart
    \/ DistrictChart
    \/ Rerun
    \/ RefreshData

Spec == Init /\ [][Next]_vars

(***************************************************************************)
(* process_status_data called on its own                                   *)
(***************************************************************************)
\* the column lists of the frames the function is called with
ColumnLayouts ==
    {<<>>, <<c_gender>>, <<c_es>>, <<c_es, c_gender>>, <<c_da, c_es>>,
     <<c_es, c_da, c_gender>>}

GridCells == {None, Str(w_Approved), Str(w_rejected_padded), Str(w_xyz)}

grid_rows(layout) ==
    {f \in [Range(layout) -> GridCells \cup {Str(<<"M">>)}] :
        \A c \in Range(layout) :
            IF c = c_gender THEN f[c] = Str(<<"M">>) ELSE f[c] \in GridCells}

StatusFrames ==
    UNION {{[columns |-> l, rows |-> rs] :
                rs \in SeqsUpTo(grid_rows(l), IF l = <<>> THEN 0 ELSE MaxRows)} :
              l \in ColumnLayouts}

StatusViews == {Aggregated, s_ES, s_DA, s_MD}

StatusFilters ==
    {filter_none, filter_list(Range(all_status_types))}
        \cup {filter_list(S) : S \in SUBSET {"Approved", "Rejected", "Other"}}

\* the words a probed status value is written from: the mapping's keys and
\* words that are no key
w_approve == <<"a","p","p","r","o","v","e">>
w_nan == <<"n","a","n">>
w_inprogress == <<"i","n","p","r","o","g","r","e","s","s">>
w_in__progress == <<"i","n"," "," ","p","r","o","g","r","e","s","s">>

KeyWords ==
    {k_approved, k_accepted, k_complete, k_rejected, k_denied, k_in_progress,
     k_pending, k_review, k_awaiting_review, k_null, k_none, k_empty}

OtherWords == {w_approve, w_nan, w_inprogress, w_in__progress, w_xyz}

pad(n, ch) == [i \in 1..n |-> ch]

cased(word, variant) ==
    CASE variant = "upper" -> [i \in DOMAIN word |-> upper_char(word[i])]
      [] variant = "capital" ->
            [i \in DOMAIN word |-> IF i = 1 THEN upper_char(word[i]) ELSE word[i]]
      [] OTHER -> word

Probes ==
    {[kind |-> "null", word |-> <<>>, variant |-> "lower",
      lpad |-> 0, rpad |-> 0, padchar |-> " "]}
    \cup
    {[kind |-> "text", word |-> w, variant |-> v,
      lpad |-> l, rpad |-> r, padchar |-> ch] :
        w \in KeyWords \cup OtherWords,
        v \in {"lower", "upper", "capital"},
        l \in 0..MaxPad, r \in 0..MaxPad, ch \in {" ", "\t"}}

\* the cell a probe stands for
written(p) ==
    IF p.kind = "null" THEN None
    ELSE Str(pad(p.lpad, p.padchar) \o cased(p.word, p.variant)
                 \o pad(p.rpad, p.padchar))

CallProcessStatusData ==
    /\ pc = "call"
    /\ processed' = process_status_data(raw_df, selected_view, selected_status_types)
    /\ pc' = "returned"
    /\ UNCHANGED <<raw_df, cache_valid, cached_df, religions_df, districts_df,
                   selected_view, selected_status_types, gender_counts,
                   age_counts, religion_counts, district_counts, clock, reads,
                   probe>>

InitStatus ==
    /\ pc = "call"
    /\ \/ /\ probe = NoProbe
          /\ raw_df \in StatusFrames
          /\ selected_view \in StatusViews
          /\ selected_status_types \in StatusFilters
       \/ /\ probe \in Probes
          /\ raw_df = [columns |-> <<c_es>>, rows |-> <<(c_es :> written(probe))>>]
          /\ selected_view \in {Aggregated, s_ES}
          /\ selected_status_types = filter_none
    /\ cache_valid = FALSE
    /\ cached_df = EmptyFrame
    /\ religions_df = <<>>
    /\ districts_df = <<>>
    /\ processed = NotCalled
    /\ gender_counts = Pending
    /\ age_counts = Pending
    /\ religion_counts = Pending
    /\ district_counts = Pending
    /\ clock = Date(2026, 6, 15)
    /\ reads = <<>>

NextStatus == CallProcessStatusData

SpecStatus == InitStatus /\ [][NextStatus]_vars

(***************************************************************************)
(* Chart 2 run on one dob                                                  *)
(***************************************************************************)
BirthYears == 1920..2030

BirthMonthDays ==
    {<<1, 1>>, <<1, 31>>, <<2, 1>>, <<2, 27>>, <<2, 28>>, <<2, 29>>, <<2, 30>>,
     <<3, 1>>, <<6, 14>>, <<6, 15>>, <<6, 16>>, <<12, 30>>, <<12, 31>>, <<13, 1>>}

AgeDobs ==
    {dob_none} \cup
    {dob_raw(y, md[1], md[2]) : y \in BirthYears, md \in BirthMonthDays}

InitAge ==
    /\ pc = "age"
    /\ \E b \in AgeDobs :
          raw_df = [columns |-> <<c_dob>>, rows |-> <<(c_dob :> b)>>]
    /\ cached_df = raw_df
    /\ cache_valid = TRUE
    /\ clock \in ClockDates
    /\ religions_df = <<>>
    /\ districts_df = <<>>
    /\ selected_view = Aggregated
    /\ selected_status_types = filter_list(Range(all_status_types))
    /\ processed = NotCalled
    /\ gender_counts = Pending
    /\ age_counts = Pending
    /\ religion_counts = Pending
    /\ district_counts = Pending
    /\ reads = <<>>
    /\ probe = NoProbe

NextAge == AgeChart

SpecAge == InitAge /\ [][NextAge]_vars

(***************************************************************************)
(* Properties of process_status_data (under SpecStatus)                    *)
(***************************************************************************)
RECURSIVE SumCounts(_)
SumCounts(counts) ==
    IF counts = <<>> THEN 0 ELSE Head(counts).Count + SumCounts(Tail(counts))

\* the six stage columns of the data model
StageColumns == {c_es, c_da, c_osd, c_mngr, c_gm, c_md}

StageColumnsPresent == Range(raw_df.columns) \cap StageColumns

\* the column a single-stage view reads
StageColumnFor(view) ==
    CASE view = s_ES -> c_es
      [] view = s_DA -> c_da
      [] view = s_OSD -> c_osd
      [] view = s_MNGR -> c_mngr
      [] view = s_GM -> c_gm
      [] view = s_MD -> c_md

\* C1: with no status filter, on a non-empty row-set with at least one
\* stage column, the Aggregated counts sum to len(rows) times the number of
\* stage columns present, and the counts of a stage whose column is present
\* sum to len(rows): every cell is one observation, whatever it holds.
C1_ObservationCount ==
    (/\ pc = "returned"
     /\ selected_status_types = filter_none
     /\ Len(raw_df.rows) > 0
     /\ StageColumnsPresent # {})
    => IF selected_view = Aggregated
       THEN SumCounts(processed.counts)
                = Len(raw_df.rows) * Cardinality(StageColumnsPresent)
       ELSE StageColumnFor(selected_view) \in StageColumnsPresent
                => SumCounts(processed.counts) = Len(raw_df.rows)

\* an Aggregated call on two rows and two stage columns that hold a None
\* and an unmapped text, all four cells counted
C1_Witness ==
    /\ pc = "returned"
    /\ selected_status_types = filter_none
    /\ selected_view = Aggregated
    /\ Len(raw_df.rows) = 2
    /\ StageColumnsPresent = {c_es, c_da}
    /\ raw_df.rows[1][c_es] = None
    /\ raw_df.rows[2][c_da] = Str(w_xyz)
    /\ SumCounts(processed.counts) = 4

\* C2: for every supplied status filter that is a subset of the canonical
\* statuses, the empty one included, the result holds no category outside
\* the filter, and its counts sum to at most the unfiltered sum.
C2_FilterRestricts ==
    (/\ pc = "returned"
     /\ ~selected_status_types.isnone
     /\ selected_status_types.items \subseteq Range(order))
    => /\ \A i \in DOMAIN processed.counts :
              processed.counts[i].Status \in selected_status_types.items
       /\ SumCounts(processed.counts)
              <= SumCounts(process_status_data(raw_df, selected_view,
                                               filter_none).counts)

\* the category the fixed table gives a word
TableCategory(word) ==
    CASE word \in {k_approved, k_accepted, k_complete} -> "Approved"
      [] word \in {k_rejected, k_denied} -> "Rejected"
      [] word \in {k_in_progress, k_pending, k_review, k_awaiting_review}
            -> "In Progress"
      [] word \in {k_null, k_none, k_empty} -> "Unknown/Missing"
      [] OTHER -> "Other"

\* C3: normalization is total and follows the table: a value written as a
\* key of the table in any letter case, with whitespace around it, gets the
\* key's category; None and the empty text get Unknown/Missing; any other
\* text gets Other.  The value's one observation is tallied under exactly
\* that category.
C3_Normalization ==
    (pc = "returned" /\ probe.kind # "none")
    => processed.counts =
          <<[Status |-> IF probe.kind = "null" THEN "Unknown/Missing"
                        ELSE TableCategory(probe.word),
             Count |-> 1]>>

\* "\tIN PROGRESS\t" is tallied as In Progress
C3_Witness ==
    /\ pc = "returned"
    /\ probe.kind = "text"
    /\ probe.word = k_in_progress
    /\ probe.variant = "upper"
    /\ probe.lpad = 1
    /\ probe.rpad = 1
    /\ probe.padchar = "\t"
    /\ processed.counts = <<[Status |-> "In Progress", Count |-> 1]>>

OrderIndex(status) == CHOOSE i \in DOMAIN order : order[i] = status

\* C4: the count rows come in the order Approved, Rejected, In Progress,
\* Unknown/Missing, Other, no category twice, and no row counts zero.
C4_OrderedCounts ==
    pc = "returned"
    => /\ \A i \in DOMAIN processed.counts :
              /\ processed.counts[i].Status \in Range(order)
              /\ processed.counts[i].Count > 0
       /\ \A i, j \in DOMAIN processed.counts :
              i < j => OrderIndex(processed.counts[i].Status)
                           < OrderIndex(processed.counts[j].Status)

\* a result whose most frequent category is not the first of the order
C4_Witness ==
    /\ pc = "returned"
    /\ Len(processed.counts) >= 2
    /\ processed.counts[1].Count < processed.counts[2].Count

empty_result(title) == [counts |-> <<>>, title |-> title]

column_not_found(col) == <<"Column ">> \o col \o <<" not found">>

\* C9: anomalous input is reported as a value, in the order the cases are
\* listed: an empty row-set gives "No Data"; a non-empty row-set with no
\* stage column gives "No relevant status columns"; otherwise a single-stage
\* view whose column is absent gives a reason naming the column; each with
\* an empty result, nothing tallied.
C9_AnomaliesReported ==
    pc = "returned"
    => /\ Len(raw_df.rows) = 0 => processed = empty_result(<<"No Data">>)
       /\ (Len(raw_df.rows) > 0 /\ StageColumnsPresent = {})
              => processed = empty_result(<<"No relevant status columns">>)
       /\ (/\ Len(raw_df.rows) > 0
           /\ StageColumnsPresent # {}
           /\ selected_view # Aggregated
           /\ StageColumnFor(selected_view) \notin Range(raw_df.columns))
              => processed
                   = empty_result(column_not_found(StageColumnFor(selected_view)))

\* the MD view of rows that have an es column only
C9_Witness ==
    /\ pc = "returned"
    /\ selected_view = s_MD
    /\ Len(raw_df.rows) > 0
    /\ StageColumnsPresent = {c_es}
    /\ processed = empty_result(column_not_found(c_md))

(***************************************************************************)
(* Properties of the script run (under Spec)                               *)
(***************************************************************************)
\* the chart has run: its table is drawn or st.info was shown
HasRun(chart) == chart.state # "pending"

UniqueIds(lookup) ==
    \A i, j \in DOMAIN lookup : lookup[i].id = lookup[j].id => i = j

JoinTallies(chart, keys, lookup, placeholder, key) ==
    LET unresolved == {i \in DOMAIN keys :
                          \/ keys[i].isnull
                          \/ \A j \in DOMAIN lookup : lookup[j].id # keys[i].val}
        resolved(nm) == {ij \in (DOMAIN keys) \X (DOMAIN lookup) :
                            /\ ~keys[ij[1]].isnull
                            /\ lookup[ij[2]].id = keys[ij[1]].val
                            /\ lookup[ij[2]].name = nm}
        rows_of(nm) == {r \in DOMAIN chart.counts : chart.counts[r][key] = nm}
        tallied(nm) == IF rows_of(nm) = {} THEN 0
                       ELSE chart.counts[CHOOSE r \in rows_of(nm) : TRUE].Count
        names == {lookup[j].name : j \in DOMAIN lookup}
    IN  /\ chart.state = "chart"
        /\ \A r \in DOMAIN chart.counts :
               chart.counts[r][key] \in names \cup {placeholder}
        /\ Cardinality(rows_of(placeholder)) <= 1
        /\ tallied(placeholder) = Cardinality(unresolved)
        /\ \A nm \in names :
               /\ Cardinality(rows_of(nm)) <= 1
               /\ tallied(nm) = Cardinality(resolved(nm))

C8_SourceRowSetUnchanged ==
    pc # "load" => raw_df = cached_df

(***************************************************************************)
(* Properties of Chart 2 (under SpecAge)                                   *)
(***************************************************************************)
\* the bucket the claim gives an age
BucketOf(a) ==
    IF a < 0 THEN "Unknown"
    ELSE IF a >= 100 THEN "100+"
    ELSE ToString(10 * (a \div 10)) \o "-" \o ToString(10 * (a \div 10) + 9)

AgeGroups ==
    {"Unknown", "0-9", "10-19", "20-29", "30-39", "40-49", "50-59", "60-69",
     "70-79", "80-89", "90-99", "100+"}

AgeChartDone == pc = "religion" /\ HasRun(age_counts)

\* C7: every age gets exactly one label: 10k-(10k+9) with k = age div 10
\* for 0..99, 100+ from 100 on, Unknown below 0.
C7_AgeBuckets ==
    AgeChartDone
    => \A i \in DOMAIN raw_df.rows :
           /\ raw_df.rows[i][c_age_group] \in AgeGroups
           /\ raw_df.rows[i][c_age_group] = BucketOf(raw_df.rows[i][c_age])

\* age 99 is in 90-99
C7_Witness ==
    /\ AgeChartDone
    /\ raw_df.rows[1][c_age] = 99
    /\ raw_df.rows[1][c_age_group] = "90-99"

\* the age of someone born on x, on the date D
AgeOn(x, D) ==
    D.y - x.y - (IF 100 * D.m + D.d < 100 * x.m + x.d THEN 1 ELSE 0)

IsValidDob(b) == b.tag = "raw" /\ is_calendar_date(b.y, b.m, b.d)

\* C10: for a valid dob the computed age is the age on the current date
\* (a date the clock showed while Chart 2 ran); a None or unparsable dob
\* gives -1 and Unknown.
C10_AgeOnCurrentDate ==
    AgeChartDone
    => \A i \in DOMAIN raw_df.rows :
           LET b == cached_df.rows[i][c_dob]
               age == raw_df.rows[i][c_age]
           IN  IF IsValidDob(b)
               THEN \E D \in Range(reads[i]) : age = AgeOn(b, D)
               ELSE age = -1 /\ raw_df.rows[i][c_age_group] = "Unknown"

\* What does hold: an age computed from three reads of the same date is
\* the age on that date.
AgeOnOneDate ==
    AgeChartDone
    => \A i \in DOMAIN raw_df.rows :
           LET b == cached_df.rows[i][c_dob]
               age == raw_df.rows[i][c_age]
           IN  IF IsValidDob(b)
               THEN (reads[i][1] = reads[i][2] /\ reads[i][2] = reads[i][3])
                        => age = AgeOn(b, reads[i][1])
               ELSE age = -1 /\ raw_df.rows[i][c_age_group] = "Unknown"

====
